---- MODULE Spec2Model ----
(***************************************************************************)
(* distr-create-version-action: src/main.ts.                               *)
(*                                                                         *)
(* parseAndResolveResources (the resource-list resolver) and run (the      *)
(* orchestrator that calls it and then the Distr backend) as one state     *)
(* machine.  Text is modelled as sequences: a string is a sequence of      *)
(* characters, the raw "resources" input is a sequence of lexical tokens.  *)
(***************************************************************************)
EXTENDS Integers, Sequences, FiniteSets, TLC

VARIABLES
    input,       \* parseAndResolveResources: parameter `input` (token text)
    fsys,        \* the file system seen by fs.readFile: path -> file state
    pc,          \* parseAndResolveResources: position in the function
    parsed,      \* parseAndResolveResources: local `parsed` (the array)
    i,           \* parseAndResolveResources: loop index (0-based as in JS)
    resources,   \* parseAndResolveResources: local `resources`
    result,      \* parseAndResolveResources: the value the promise resolves to
    error,       \* parseAndResolveResources: the Error the promise rejects with
    reads,       \* log of fs.readFile calls issued by the resolver
    parseCalls,  \* number of JSON.parse invocations
    rpc,         \* run: position in the function
    inputs,      \* run: the action inputs handed out by core.getInput
    calls,       \* run: log of DistrService calls
    versionId,   \* run: local `versionId`
    failed,      \* run: what core.setFailed recorded
    output       \* run: what core.setOutput('created-version-id') recorded

vars == <<input, fsys, pc, parsed, i, resources, result, error, reads,
          parseCalls, rpc, inputs, calls, versionId, failed, output>>

resolveVars == <<input, pc, parsed, i, resources, result, error, reads, parseCalls>>
runVars == <<rpc, inputs, calls, versionId, failed, output>>

(***************************************************************************)
(* Bounds.                                                                 *)
(***************************************************************************)
MaxLen == 2          \* longest resources array enumerated

(***************************************************************************)
(* Strings and String.prototype.trim.                                      *)
(***************************************************************************)
Empty == <<>>
Blank == <<" ">>

RECURSIVE TrimLeft(_, _)
TrimLeft(s, ws) ==
    IF s # <<>> /\ Head(s) \in ws THEN TrimLeft(Tail(s), ws) ELSE s

RECURSIVE TrimRight(_, _)
TrimRight(s, ws) ==
    IF s # <<>> /\ s[Len(s)] \in ws
    THEN TrimRight(SubSeq(s, 1, Len(s) - 1), ws)
    ELSE s

\* s.trim(): leading and trailing white space removed, the middle kept.
Trim(s) == TrimRight(TrimLeft(s, {" "}), {" "})

(***************************************************************************)
(* JavaScript values as they come out of JSON.parse.  t is the value's     *)
(* tag (undefined = the key is missing); s, b, n carry the payload.        *)
(***************************************************************************)
Undefined == [t |-> "undefined", s |-> <<>>, b |-> FALSE, n |-> 0]
Null      == [t |-> "null",      s |-> <<>>, b |-> FALSE, n |-> 0]
Str(s)    == [t |-> "string",    s |-> s,    b |-> FALSE, n |-> 0]
Bool(b)   == [t |-> "boolean",   s |-> <<>>, b |-> b,     n |-> 0]
Num(n)    == [t |-> "number",    s |-> <<>>, b |-> FALSE, n |-> n]

\* typeof v
Typeof(v) == IF v.t = "null" THEN "object" ELSE v.t

\* ToBoolean(v), as used by `!v`
Truthy(v) ==
    CASE v.t = "string"  -> v.s # <<>>
      [] v.t = "number"  -> v.n # 0
      [] v.t = "boolean" -> v.b
      [] OTHER           -> FALSE

\* An array element: kind is the JSON shape, the rest its four known keys.
Obj(name, content, path, vis) ==
    [kind |-> "object", name |-> name, content |-> content, path |-> path,
     visibleToCustomers |-> vis]
NonObj(kind) ==
    [kind |-> kind, name |-> Undefined, content |-> Undefined,
     path |-> Undefined, visibleToCustomers |-> Undefined]

(***************************************************************************)
(* Errors: `new Error(message)`; msg is the message template, index, name  *)
(* and path the values interpolated into it (-1 / empty when not used).    *)
(***************************************************************************)
Err(msg, index, name, path) ==
    [msg |-> msg, index |-> index, name |-> name, path |-> path]
NoError == Err("none", -1, <<>>, <<>>)

ValidationMsgs ==
    {"invalid_json", "not_array", "not_object", "name_required",
     "content_type", "path_type", "visible_type", "not_both", "required"}

NoResult == [kind |-> "pending", value |-> <<>>]

(***************************************************************************)
(* The raw input text, as lexical tokens: white space, the punctuation of  *)
(* a JSON array, the text of one JSON value that is not written with       *)
(* top-level brackets (val), and text that is no JSON token at all (junk). *)
(***************************************************************************)
NoItem == NonObj("none")
Tok(tok, val) == [tok |-> tok, val |-> val]
Ws     == Tok("ws", NoItem)
LBrack == Tok("[", NoItem)
RBrack == Tok("]", NoItem)
Comma  == Tok(",", NoItem)
Junk   == Tok("junk", NoItem)
Val(v) == Tok("val", v)

\* The text JSON.stringify would give for an array of elements.
RECURSIVE Elements(_)
Elements(arr) ==
    IF arr = <<>> THEN <<>>
    ELSE IF Len(arr) = 1 THEN <<Val(arr[1])>>
    ELSE <<Val(arr[1]), Comma>> \o Elements(Tail(arr))

Stringify(arr) == <<LBrack>> \o Elements(arr) \o <<RBrack>>

\* The elements of "v , v , ... , v"; ok is FALSE when the text is not of
\* that shape (a missing or a trailing comma, a stray bracket, junk).
RECURSIVE ParseElements(_)
ParseElements(toks) ==
    IF toks = <<>> THEN [ok |-> FALSE, arr |-> <<>>]
    ELSE IF Head(toks).tok # "val" THEN [ok |-> FALSE, arr |-> <<>>]
    ELSE IF Len(toks) = 1 THEN [ok |-> TRUE, arr |-> <<Head(toks).val>>]
    ELSE IF toks[2].tok # "," THEN [ok |-> FALSE, arr |-> <<>>]
    ELSE LET rest == ParseElements(SubSeq(toks, 3, Len(toks)))
         IN  [ok |-> rest.ok,
              arr |-> IF rest.ok THEN <<Head(toks).val>> \o rest.arr ELSE <<>>]

\* JSON.parse(text): ok = FALSE is the SyntaxError it throws.  White space
\* between tokens is insignificant; text with no token at all is an error.
JSONParse(text) ==
    LET toks == SelectSeq(text, LAMBDA t : t.tok # "ws")
        bad  == [ok |-> FALSE, isArray |-> FALSE, arr |-> <<>>]
    IN  IF toks = <<>> THEN bad
        ELSE IF Len(toks) = 1
             THEN IF toks[1].tok = "val"
                  THEN [ok |-> TRUE, isArray |-> FALSE, arr |-> <<>>]
                  ELSE bad
        ELSE IF toks[1].tok = "[" /\ toks[Len(toks)].tok = "]"
             THEN IF Len(toks) = 2
                  THEN [ok |-> TRUE, isArray |-> TRUE, arr |-> <<>>]
                  ELSE LET es == ParseElements(SubSeq(toks, 2, Len(toks) - 1))
                       IN  [ok |-> es.ok, isArray |-> es.ok, arr |-> es.arr]
        ELSE bad

(***************************************************************************)
(* The inputs enumerated.                                                  *)
(***************************************************************************)
NameA == <<"a">>
NameB == <<"b">>
TextX == <<"x">>
TextPadded == <<" ", "x", " ">>
PathF == <<"f">>
PathG == <<"g">>
Paths == {PathF, PathG, Blank, Empty}

NameVals == {Undefined, Null, Num(0), Num(1), Str(Empty), Str(Blank),
             Str(NameA), Str(NameB)}
ContentVals == {Undefined, Str(Empty), Str(Blank), Str(TextX), Str(TextPadded)}
PathVals == {Undefined, Str(Blank), Str(PathF), Str(PathG)}
VisVals == {Undefined, Null, Num(1), Bool(TRUE), Bool(FALSE)}

Items ==
    {NonObj("null"), NonObj("array"), NonObj("number")}
    \cup {Obj(n, Str(TextX), Undefined, Undefined) : n \in NameVals}
    \cup {Obj(Str(NameA), c, p, Undefined) : c \in ContentVals, p \in PathVals}
    \cup {Obj(Str(NameA), Num(1), Undefined, Undefined),
          Obj(Str(NameA), Str(TextX), Num(1), Undefined),
          Obj(Str(NameA), Null, Str(PathF), Undefined)}
    \cup {Obj(Str(NameB), Str(TextPadded), Undefined, v) : v \in VisVals}
    \cup {Obj(Str(NameB), Undefined, Str(PathG), v) : v \in VisVals}

Arrays == UNION {[1..n -> Items] : n \in 0..MaxLen}

RawInputs ==
    {<<>>, <<Ws>>, <<Ws, Ws>>, <<Junk>>, <<LBrack>>, <<Ws, LBrack, Ws, RBrack>>,
     <<LBrack, Val(NonObj("number")), Comma, RBrack>>,
     <<Val(NonObj("number"))>>, <<Val(NonObj("null"))>>,
     <<Ws, Val(Obj(Str(NameA), Str(TextX), Undefined, Undefined))>>}
    \cup {Stringify(a) : a \in Arrays}

\* A file: missing/unreadable (ok = FALSE) or readable with its text.
NoFile == [ok |-> FALSE, text |-> <<>>]
File(text) == [ok |-> TRUE, text |-> text]

FileSystems ==
    {[p \in Paths |-> IF p = PathF THEN f ELSE IF p = PathG THEN g ELSE NoFile] :
        f \in {NoFile, File(<<"F", " ">>)}, g \in {NoFile, File(Empty)}}

(***************************************************************************)
(* parseAndResolveResources: the per-element checks.                       *)
(***************************************************************************)
\* line 96 without the early return
IsEmptyInput_Never(text) == FALSE

\* line 96: !input
IsEmptyInput(text) == text = <<>>

\* line 115: typeof item !== 'object' || item === null || Array.isArray(item)
NotJsonObject(item) == item.kind # "object"

\* line 119 with the emptiness test dropped
NameMissing_TypeOnly(item) == Typeof(item.name) # "string"

\* line 119: !item.name || typeof item.name !== 'string'
NameMissing(item) == ~Truthy(item.name) \/ Typeof(item.name) # "string"

\* lines 123, 126, 129: x !== undefined && typeof x !== <type>
WrongType(v, type) == v.t # "undefined" /\ Typeof(v) # type

\* line 133 comparing with '' instead of trimming first
HasContent_NoTrim(item) ==
    item.content.t # "undefined" /\ item.content # Str(Empty)

\* line 133
HasContent(item) ==
    Typeof(item.content) = "string" /\ Trim(item.content.s) # <<>>

\* line 134
HasPath(item) ==
    Typeof(item.path) = "string" /\ Trim(item.path.s) # <<>>

\* line 159 with || in place of ??
VisibleOrDefault_Or(item) ==
    IF Truthy(item.visibleToCustomers) THEN item.visibleToCustomers.b ELSE TRUE

\* line 159: (item.visibleToCustomers as boolean) ?? true
VisibleOrDefault(item) ==
    IF item.visibleToCustomers.t \in {"undefined", "null"}
    THEN TRUE
    ELSE item.visibleToCustomers.b

\* lines 115-131: the error thrown for element idx, NoError when none is.
TypeChecks(idx, item) ==
    IF NotJsonObject(item) THEN Err("not_object", idx, <<>>, <<>>)
    ELSE IF NameMissing(item) THEN Err("name_required", idx, <<>>, <<>>)
    ELSE IF WrongType(item.content, "string")
         THEN Err("content_type", idx, item.name.s, <<>>)
    ELSE IF WrongType(item.path, "string")
         THEN Err("path_type", idx, item.name.s, <<>>)
    ELSE IF WrongType(item.visibleToCustomers, "boolean")
         THEN Err("visible_type", idx, item.name.s, <<>>)
    ELSE NoError

\* lines 133-141
ExclusiveCheck(idx, item) ==
    IF HasContent(item) /\ HasPath(item)
    THEN Err("not_both", idx, item.name.s, <<>>)
    ELSE IF ~HasContent(item) /\ ~HasPath(item)
    THEN Err("required", idx, item.name.s, <<>>)
    ELSE NoError

\* lines 115-141, in the order of the code
ValidateItem(idx, item) ==
    IF TypeChecks(idx, item) # NoError
    THEN TypeChecks(idx, item)
    ELSE ExclusiveCheck(idx, item)

\* lines 156-160 storing the trimmed content
MakeResource_Trimmed(item, content) ==
    [name |-> item.name.s, content |-> Trim(content),
     visibleToCustomers |-> VisibleOrDefault(item)]

\* lines 156-160
MakeResource(item, content) ==
    [name |-> item.name.s, content |-> content,
     visibleToCustomers |-> VisibleOrDefault(item)]

\* line 163 returning the list even when it is empty
ReturnValue_Always(res) == [kind |-> "array", value |-> res]

\* line 163: resources.length > 0 ? resources : undefined
ReturnValue(res) ==
    IF Len(res) > 0
    THEN [kind |-> "array", value |-> res]
    ELSE [kind |-> "undefined", value |-> <<>>]

(***************************************************************************)
(* parseAndResolveResources: the state machine.  pc is "idle" before the   *)
(* call, "entry" at line 96, "parse" at line 100, "loop" at the loop test  *)
(* of line 112, "content" at line 143, and "returned" / "thrown" once the  *)
(* promise has settled.                                                    *)
(***************************************************************************)
\* fs.readFile(path, 'utf8'): a path the file system does not hold fails.
ReadFileResult(path) ==
    IF path \in DOMAIN fsys THEN fsys[path] ELSE NoFile

Throw(e) ==
    /\ error' = e
    /\ pc' = "thrown"

\* lines 156-161 with unshift in place of push
Push_Prepend(item, content) ==
    /\ resources' = <<MakeResource(item, content)>> \o resources
    /\ i' = i + 1
    /\ pc' = "loop"

\* lines 156-161: push the resource, then i++
Push(item, content) ==
    /\ resources' = Append(resources, MakeResource(item, content))
    /\ i' = i + 1
    /\ pc' = "loop"

\* lines 96-98
Enter ==
    /\ pc = "entry"
    /\ IF IsEmptyInput(input)
       THEN /\ result' = [kind |-> "undefined", value |-> <<>>]
            /\ pc' = "returned"
       ELSE /\ pc' = "parse"
            /\ UNCHANGED result
    /\ UNCHANGED <<input, fsys, parsed, i, resources, error, reads, parseCalls>>
    /\ UNCHANGED runVars

\* lines 100-112 (up to `let i = 0`)
Parse ==
    /\ pc = "parse"
    /\ parseCalls' = parseCalls + 1
    /\ LET r == JSONParse(input)
       IN  IF ~r.ok
           THEN Throw(Err("invalid_json", -1, <<>>, <<>>))
                /\ UNCHANGED <<parsed, i, resources>>
           ELSE IF ~r.isArray
           THEN Throw(Err("not_array", -1, <<>>, <<>>))
                /\ UNCHANGED <<parsed, i, resources>>
           ELSE /\ parsed' = r.arr
                /\ resources' = <<>>
                /\ i' = 0
                /\ pc' = "loop"
                /\ UNCHANGED error
    /\ UNCHANGED <<input, fsys, result, reads>>
    /\ UNCHANGED runVars

\* lines 112-141 skipping an invalid element instead of throwing
Validate_SkipInvalid ==
    /\ pc = "loop"
    /\ i < Len(parsed)
    /\ IF ValidateItem(i, parsed[i + 1]) # NoError
       THEN pc' = "loop" /\ i' = i + 1
       ELSE pc' = "content" /\ UNCHANGED i
    /\ UNCHANGED <<input, fsys, parsed, resources, result, error, reads, parseCalls>>
    /\ UNCHANGED runVars

\* lines 112-141: the loop test passes and element i is validated
Validate ==
    /\ pc = "loop"
    /\ i < Len(parsed)
    /\ LET e == ValidateItem(i, parsed[i + 1])
       IN  IF e # NoError
           THEN Throw(e)
           ELSE pc' = "content" /\ UNCHANGED error
    /\ UNCHANGED <<input, fsys, parsed, i, resources, result, reads, parseCalls>>
    /\ UNCHANGED runVars

\* lines 144-151 with a failed read skipped instead of rethrown
ReadFile_Continue ==
    /\ pc = "content"
    /\ HasPath(parsed[i + 1])
    /\ LET item == parsed[i + 1]
           file == ReadFileResult(item.path.s)
       IN  /\ reads' = Append(reads, [index |-> i, path |-> item.path.s])
           /\ IF file.ok
              THEN Push(item, file.text)
              ELSE pc' = "loop" /\ i' = i + 1 /\ UNCHANGED resources
    /\ UNCHANGED <<input, fsys, parsed, result, error, parseCalls>>
    /\ UNCHANGED runVars

\* lines 144-151, 156-161: await fs.readFile(item.path), then push
ReadFile ==
    /\ pc = "content"
    /\ HasPath(parsed[i + 1])
    /\ LET item == parsed[i + 1]
           file == ReadFileResult(item.path.s)
       IN  /\ reads' = Append(reads, [index |-> i, path |-> item.path.s])
           /\ IF file.ok
              THEN Push(item, file.text) /\ UNCHANGED error
              ELSE Throw(Err("read_failed", i, item.name.s, item.path.s))
                   /\ UNCHANGED <<resources, i>>
    /\ UNCHANGED <<input, fsys, parsed, result, parseCalls>>
    /\ UNCHANGED runVars

\* lines 152-161: content = item.content, then push
UseContent ==
    /\ pc = "content"
    /\ ~HasPath(parsed[i + 1])
    /\ Push(parsed[i + 1], parsed[i + 1].content.s)
    /\ UNCHANGED <<input, fsys, parsed, result, error, reads, parseCalls>>
    /\ UNCHANGED runVars

\* lines 112, 163: the loop test fails and the function returns
Return ==
    /\ pc = "loop"
    /\ i >= Len(parsed)
    /\ result' = ReturnValue(resources)
    /\ pc' = "returned"
    /\ UNCHANGED <<input, fsys, parsed, i, resources, error, reads, parseCalls>>
    /\ UNCHANGED runVars

(***************************************************************************)
(* run: the orchestrator.                                                  *)
(***************************************************************************)
RequiredIds ==
    {"api-token", "application-id", "version-name", "chart-version",
     "chart-type", "chart-name", "chart-url"}

\* core.getInput(name): the input's text with surrounding white space
\* removed (trimWhitespace defaults to true).
GetInput(text) == TrimRight(TrimLeft(text, {Ws}), {Ws})

\* lines 166-172: requiredInput(id) throws when the input is empty
IsMissing(id) == id \in inputs.emptyInputs

NoFailure == [set |-> FALSE, msg |-> "none", err |-> NoError]

\* lines 89-92: catch (error) { core.setFailed(error.message) }
SetFailed(msg, e) ==
    /\ failed' = [set |-> TRUE, msg |-> msg, err |-> e]
    /\ rpc' = "done"

RunRawInputs ==
    {<<>>, <<Ws>>, <<Junk>>, <<Ws, LBrack, RBrack>>,
     Stringify(<<Obj(Str(NameA), Str(TextPadded), Undefined, Undefined)>>),
     <<Ws>> \o Stringify(<<Obj(Str(NameB), Undefined, Str(PathG), Bool(FALSE))>>)
          \o <<Ws>>,
     Stringify(<<Obj(Str(NameA), Undefined, Str(PathF), Undefined),
                 Obj(Str(NameB), Str(TextX), Undefined, Bool(TRUE))>>),
     Stringify(<<Obj(Str(NameA), Str(TextX), Str(PathF), Undefined)>>),
     Stringify(<<Obj(Str(NameA), Str(TextX), Undefined, Undefined),
                 Obj(Undefined, Str(TextX), Undefined, Undefined)>>)}

RunInputs ==
    [emptyInputs : {{}} \cup {{id} : id \in RequiredIds},
     updateDeployments : {"true", "false", "maybe"},
     composePath : {Empty, <<"c">>},
     templatePath : {Empty, <<"t">>},
     baseValuesPath : {Empty, <<"v">>},
     chartType : {"repository", "oci"},
     resources : RunRawInputs]

NoInputs ==
    [emptyInputs |-> {}, updateDeployments |-> "false", composePath |-> Empty,
     templatePath |-> Empty, baseValuesPath |-> Empty, chartType |-> "oci",
     resources |-> <<>>]

\* lines 21-31
RunReadInputs ==
    /\ rpc = "start"
    /\ IF IsMissing("api-token") THEN SetFailed("required:api-token", NoError)
       ELSE IF IsMissing("application-id")
            THEN SetFailed("required:application-id", NoError)
       ELSE IF IsMissing("version-name")
            THEN SetFailed("required:version-name", NoError)
       ELSE IF inputs.updateDeployments \notin {"true", "false"}
            THEN SetFailed("not_boolean:update-deployments", NoError)
       ELSE rpc' = "template" /\ UNCHANGED failed
    /\ UNCHANGED <<inputs, calls, versionId, output, fsys>>
    /\ UNCHANGED resolveVars

\* lines 32-36: read the template file if one is named, then call
\* parseAndResolveResources(core.getInput('resources'))
RunReadTemplate ==
    /\ rpc = "template"
    /\ \E readOk \in BOOLEAN :
          IF inputs.templatePath # Empty /\ ~readOk
          THEN /\ SetFailed("io:template-file", NoError)
               /\ UNCHANGED <<input, pc>>
          ELSE /\ input' = GetInput(inputs.resources)
               /\ pc' = "entry"
               /\ rpc' = "resolving"
               /\ UNCHANGED failed
    /\ UNCHANGED <<inputs, calls, versionId, output, fsys>>
    /\ UNCHANGED <<parsed, i, resources, result, error, reads, parseCalls>>

\* line 36: the await resumes with the resolver's value
RunResolved ==
    /\ rpc = "resolving"
    /\ pc = "returned"
    /\ rpc' = "branch"
    /\ UNCHANGED <<inputs, calls, versionId, failed, output, fsys>>
    /\ UNCHANGED resolveVars

\* line 36 with the rejection swallowed and the run carrying on
RunResolveFailed_Continue ==
    /\ rpc = "resolving"
    /\ pc = "thrown"
    /\ rpc' = "branch"
    /\ UNCHANGED <<inputs, calls, versionId, failed, output, fsys>>
    /\ UNCHANGED resolveVars

\* lines 36, 89-92: the await rejects and the catch marks the step failed
RunResolveFailed ==
    /\ rpc = "resolving"
    /\ pc = "thrown"
    /\ SetFailed(error.msg, error)
    /\ UNCHANGED <<inputs, calls, versionId, output, fsys>>
    /\ UNCHANGED resolveVars

\* lines 39-40
RunReadCompose ==
    /\ rpc = "branch"
    /\ inputs.composePath # Empty
    /\ \E readOk \in BOOLEAN :
          IF readOk
          THEN rpc' = "docker" /\ UNCHANGED failed
          ELSE SetFailed("io:compose-file", NoError)
    /\ UNCHANGED <<inputs, calls, versionId, output, fsys>>
    /\ UNCHANGED resolveVars

\* lines 47-52 and 70-75: the call is logged with the resources it is
\* given; it rejects, or returns a version without or with an id.
CreateVersion(op) ==
    /\ calls' = Append(calls, [op |-> op, resources |-> result, version |-> ""])
    /\ \E outcome \in {"rejects", "no_id", "id"} :
          CASE outcome = "rejects" ->
                 /\ SetFailed("backend:" \o op, NoError)
                 /\ UNCHANGED <<versionId, output>>
            [] outcome = "no_id" ->
                 /\ SetFailed("no_id", NoError)
                 /\ UNCHANGED <<versionId, output>>
            [] OTHER ->
                 /\ versionId' = "v1"
                 /\ output' = "v1"
                 /\ rpc' = "update"
                 /\ UNCHANGED failed

\* lines 41-52
RunCreateDocker ==
    /\ rpc = "docker"
    /\ CreateVersion("createDockerApplicationVersion")
    /\ UNCHANGED <<inputs, fsys>>
    /\ UNCHANGED resolveVars

\* lines 54-59
RunChartInputs ==
    /\ rpc = "branch"
    /\ inputs.composePath = Empty
    /\ \E readOk \in BOOLEAN :
          IF IsMissing("chart-version")
          THEN SetFailed("required:chart-version", NoError)
          ELSE IF IsMissing("chart-type")
          THEN SetFailed("required:chart-type", NoError)
          ELSE IF inputs.chartType = "repository" /\ IsMissing("chart-name")
          THEN SetFailed("required:chart-name", NoError)
          ELSE IF IsMissing("chart-url")
          THEN SetFailed("required:chart-url", NoError)
          ELSE IF inputs.baseValuesPath # Empty /\ ~readOk
          THEN SetFailed("io:base-values-file", NoError)
          ELSE rpc' = "kubernetes" /\ UNCHANGED failed
    /\ UNCHANGED <<inputs, calls, versionId, output, fsys>>
    /\ UNCHANGED resolveVars

\* lines 60-75
RunCreateKubernetes ==
    /\ rpc = "kubernetes"
    /\ CreateVersion("createKubernetesApplicationVersion")
    /\ UNCHANGED <<inputs, fsys>>
    /\ UNCHANGED resolveVars

\* lines 78-88
RunUpdate ==
    /\ rpc = "update"
    /\ IF inputs.updateDeployments = "true"
       THEN /\ calls' = Append(calls, [op |-> "updateAllDeployments",
                                       resources |-> NoResult,
                                       version |-> versionId])
            /\ \E ok \in BOOLEAN :
                  IF ok
                  THEN rpc' = "done" /\ UNCHANGED failed
                  ELSE SetFailed("backend:updateAllDeployments", NoError)
       ELSE /\ rpc' = "done"
            /\ UNCHANGED <<calls, failed>>
    /\ UNCHANGED <<inputs, versionId, output, fsys>>
    /\ UNCHANGED resolveVars

(***************************************************************************)
(* Specifications.  Spec is one call of parseAndResolveResources on any    *)
(* raw input; SpecRun is one execution of run.                             *)
(***************************************************************************)
Init ==
    /\ input \in RawInputs
    /\ fsys \in FileSystems
    /\ pc = "entry"
    /\ parsed = <<>>
    /\ i = 0
    /\ resources = <<>>
    /\ result = NoResult
    /\ error = NoError
    /\ reads = <<>>
    /\ parseCalls = 0
    /\ rpc = "off"
    /\ inputs = NoInputs
    /\ calls = <<>>
    /\ versionId = ""
    /\ failed = NoFailure
    /\ output = ""

Next ==
    \/ Enter
    \/ Parse
    \/ Validate
    \/ ReadFile
    \/ UseContent
    \/ Return

Spec == Init /\ [][Next]_vars

InitRun ==
    /\ inputs \in RunInputs
    /\ fsys \in FileSystems
    /\ rpc = "start"
    /\ input = <<>>
    /\ pc = "idle"
    /\ parsed = <<>>
    /\ i = 0
    /\ resources = <<>>
    /\ result = NoResult
    /\ error = NoError
    /\ reads = <<>>
    /\ parseCalls = 0
    /\ calls = <<>>
    /\ versionId = ""
    /\ failed = NoFailure
    /\ output = ""

NextRun ==
    \/ RunReadInputs
    \/ RunReadTemplate
    \/ Enter
    \/ Parse
    \/ Validate
    \/ ReadFile
    \/ UseContent
    \/ Return
    \/ RunResolved
    \/ RunResolveFailed
    \/ RunReadCompose
    \/ RunCreateDocker
    \/ RunChartInputs
    \/ RunCreateKubernetes
    \/ RunUpdate

SpecRun == InitRun /\ [][NextRun]_vars

(***************************************************************************)
(* Vocabulary of the properties, stated on the data and not through the    *)
(* operators of the model above.                                           *)
(***************************************************************************)
Settled == pc \in {"returned", "thrown"}
Indices == 0 .. (Len(parsed) - 1)
Elem(j) == parsed[j + 1]

\* a string with at least one character that is not white space
NonBlank(v) == v.t = "string" /\ \E k \in 1..Len(v.s) : v.s[k] # " "

\* only white space, possibly none at all
IsBlankText(text) == \A k \in 1..Len(text) : text[k] = Ws

\* the text of the empty array: [ ] with white space anywhere
IsEmptyArrayText(text) ==
    SelectSeq(text, LAMBDA t : t # Ws) = <<LBrack, RBrack>>

\* an object whose name is missing, not a string, or the empty string
BadName(item) ==
    item.kind = "object" /\ (item.name.t # "string" \/ item.name.s = <<>>)

\* a JSON object with a usable name and fields of the right types
WellTyped(item) ==
    /\ item.kind = "object"
    /\ item.name.t = "string"
    /\ item.name.s # <<>>
    /\ item.content.t \in {"undefined", "string"}
    /\ item.path.t \in {"undefined", "string"}
    /\ item.visibleToCustomers.t \in {"undefined", "boolean"}

\* section 3 of the specification: a valid ResourceSpec
ValidSpec(item) ==
    WellTyped(item) /\ (NonBlank(item.content) # NonBlank(item.path))

\* the file named by a valid element's path can be read (vacuous otherwise)
Readable(item) ==
    NonBlank(item.path) => (item.path.s \in DOMAIN fsys /\ fsys[item.path.s].ok)

\* element j has been taken through the checks of lines 115-141
Examined(j) ==
    j \in Indices /\ (j < i \/ (j = i /\ pc \in {"content", "thrown"}))

ReadsOf(j) == {a \in DOMAIN reads : reads[a].index = j}

IsValidationError(e) == e.msg \in ValidationMsgs
IsResourceReadError(e) == e.msg = "read_failed"

C2_ExactlyOneOfContentAndPath ==
    \A j \in Indices :
        (Examined(j) /\ WellTyped(Elem(j))) =>
            /\ (NonBlank(Elem(j).content) /\ NonBlank(Elem(j).path)) =>
                  /\ pc = "thrown"
                  /\ error = Err("not_both", j, Elem(j).name.s, <<>>)
                  /\ IsValidationError(error)
                  /\ ReadsOf(j) = {}
            /\ (~NonBlank(Elem(j).content) /\ ~NonBlank(Elem(j).path)) =>
                  /\ pc = "thrown"
                  /\ error = Err("required", j, Elem(j).name.s, <<>>)
                  /\ IsValidationError(error)
                  /\ ReadsOf(j) = {}

C2_Witness ==
    /\ pc = "thrown"
    /\ error.msg = "not_both"
    /\ error.index = 1
    /\ error.name = NameA
    /\ Len(reads) = 1

(***************************************************************************)
(* C3                                                                      *)
(***************************************************************************)
\* C3 as stated: when the first invalid element of the array is at index k,
\* resolve fails with an error that references index k, whatever the later
\* elements contain, and no element after k is validated or read.
C3_FirstInvalidWins ==
    \A k \in Indices :
        (/\ Settled
         /\ ~ValidSpec(Elem(k))
         /\ \A j \in 0..(k - 1) : ValidSpec(Elem(j))) =>
            /\ pc = "thrown"
            /\ error.index = k
            /\ i = k
            /\ \A a \in DOMAIN reads : reads[a].index <= k

\* C3 amended: when the first invalid element of the array is at index k and
\* the file reads of the elements before k all succeed, resolve fails with a
\* ValidationError that references index k, whatever the later elements
\* contain, and no element after k is validated or read.
C3_FirstInvalidWinsAfterGoodReads ==
    \A k \in Indices :
        (/\ Settled
         /\ ~ValidSpec(Elem(k))
         /\ \A j \in 0..(k - 1) : ValidSpec(Elem(j)) /\ Readable(Elem(j))) =>
            /\ pc = "thrown"
            /\ IsValidationError(error)
            /\ error.index = k
            /\ i = k
            /\ \A a \in DOMAIN reads : reads[a].index < k
            /\ Len(resources) = k

C3_Witness ==
    /\ pc = "thrown"
    /\ Len(parsed) = 2
    /\ ~ValidSpec(Elem(0))
    /\ ~ValidSpec(Elem(1))
    /\ Elem(0) # Elem(1)
    /\ error.index = 0

(***************************************************************************)
(* C4                                                                      *)
(***************************************************************************)
\* C4: for a non-empty array whose elements are all valid and whose file
\* reads all succeed, resolve returns a sequence as long as the array whose
\* item at position k has the name of the array's element at position k.
C4_OrderPreserved ==
    (/\ Settled
     /\ parsed # <<>>
     /\ \A j \in Indices : ValidSpec(Elem(j)) /\ Readable(Elem(j))) =>
        /\ pc = "returned"
        /\ result.kind = "array"
        /\ Len(result.value) = Len(parsed)
        /\ \A k \in 1..Len(parsed) : result.value[k].name = parsed[k].name.s

C4_Witness ==
    /\ pc = "returned"
    /\ result.kind = "array"
    /\ Len(result.value) = 2
    /\ result.value[1].name = NameB
    /\ result.value[2].name = NameA

(***************************************************************************)
(* C5                                                                      *)
(***************************************************************************)
\* C5 as stated: for every array containing an element whose name is
\* missing, not a string or the empty string, resolve fails with a
\* ValidationError referencing that element's index.
C5_BadNameReported ==
    \A j \in Indices :
        (Settled /\ BadName(Elem(j))) =>
            /\ pc = "thrown"
            /\ IsValidationError(error)
            /\ error.index = j

\* C5 amended: for every array containing an element whose name is missing,
\* not a string or the empty string, resolve fails; when every element
\* before that one is valid and its file read succeeds, it fails with a
\* ValidationError referencing that element's index.
C5_FirstBadNameReported ==
    \A j \in Indices :
        (Settled /\ BadName(Elem(j))) =>
            /\ pc = "thrown"
            /\ (\A h \in 0..(j - 1) : ValidSpec(Elem(h)) /\ Readable(Elem(h))) =>
                  /\ IsValidationError(error)
                  /\ error = Err("name_required", j, <<>>, <<>>)
                  /\ error.index = j

C5_Witness ==
    /\ pc = "thrown"
    /\ error = Err("name_required", 1, <<>>, <<>>)
    /\ Elem(1).kind = "object"
    /\ Elem(1).name = Str(Empty)

(***************************************************************************)
(* C6                                                                      *)
(***************************************************************************)
\* C6: every Resource returned has a boolean visibleToCustomers: true when
\* the element omits visibleToCustomers, the element's own boolean when it
\* gives one.
C6_VisibleDefaultsToTrue ==
    (pc = "returned" /\ result.kind = "array") =>
        /\ Len(result.value) = Len(parsed)
        /\ \A k \in 1..Len(result.value) :
              /\ result.value[k].visibleToCustomers \in BOOLEAN
              /\ parsed[k].visibleToCustomers.t = "undefined" =>
                    result.value[k].visibleToCustomers = TRUE
              /\ parsed[k].visibleToCustomers.t = "boolean" =>
                    result.value[k].visibleToCustomers
                        = parsed[k].visibleToCustomers.b

C6_Witness ==
    /\ pc = "returned"
    /\ result.kind = "array"
    /\ Len(result.value) = 2
    /\ parsed[1].visibleToCustomers = Bool(FALSE)
    /\ result.value[1].visibleToCustomers = FALSE
    /\ parsed[2].visibleToCustomers = Undefined
    /\ result.value[2].visibleToCustomers = TRUE

(***************************************************************************)
(* C7                                                                      *)
(***************************************************************************)
\* C7: a resolve that returns never returns an empty sequence: it returns
\* absent exactly when the input is empty or is the text of the array [],
\* and otherwise a non-empty sequence.
C7_NeverEmptySequence ==
    pc = "returned" =>
        /\ result.kind \in {"undefined", "array"}
        /\ result.kind = "array" => Len(result.value) > 0
        /\ result.kind = "undefined" => result.value = <<>>
        /\ result.kind = "undefined" <=>
              (input = <<>> \/ IsEmptyArrayText(input))

C7_Witness ==
    /\ pc = "returned"
    /\ result.kind = "undefined"
    /\ input # <<>>
    /\ IsEmptyArrayText(input)
    /\ parseCalls = 1

(***************************************************************************)
(* C8                                                                      *)
(***************************************************************************)
\* C8: the content of every Resource returned is the resolved body: for an
\* element with a non-blank path, exactly the text of the file at that path
\* (and not the path); for an element with non-blank content, the content
\* string as given, white space included.
C8_ContentIsResolvedBody ==
    (pc = "returned" /\ result.kind = "array") =>
        /\ Len(result.value) = Len(parsed)
        /\ \A k \in 1..Len(result.value) :
              IF NonBlank(parsed[k].path)
              THEN /\ parsed[k].path.s \in DOMAIN fsys
                   /\ fsys[parsed[k].path.s].ok
                   /\ result.value[k].content = fsys[parsed[k].path.s].text
                   /\ result.value[k].content # parsed[k].path.s
              ELSE /\ NonBlank(parsed[k].content)
                   /\ result.value[k].content = parsed[k].content.s

C8_Witness ==
    /\ pc = "returned"
    /\ result.kind = "array"
    /\ Len(result.value) = 2
    /\ parsed[1].content = Str(TextPadded)
    /\ result.value[1].content = TextPadded
    /\ parsed[2].path = Str(PathF)
    /\ result.value[2].content = <<"F", " ">>

(***************************************************************************)
(* C9                                                                      *)
(***************************************************************************)
\* C9: file reads are issued in array-index order, at most one per element
\* and only for elements with a non-blank path, each completed before the
\* next element is examined; when the read for element i fails, resolve
\* fails with a ResourceReadError naming index i, the element's name and the
\* path, no read follows it, and no list, partial or whole, is returned.
C9_ReadsInOrderFailFast ==
    /\ \A a, b \in DOMAIN reads : a < b => reads[a].index < reads[b].index
    /\ \A a \in DOMAIN reads :
          /\ reads[a].index \in Indices
          /\ NonBlank(Elem(reads[a].index).path)
          /\ reads[a].path = Elem(reads[a].index).path.s
          /\ reads[a].index <= i
          /\ reads[a].index < i => Readable(Elem(reads[a].index))
          /\ a < Len(reads) => Readable(Elem(reads[a].index))
    /\ \A j \in Indices :
          (j < i /\ NonBlank(Elem(j).path)) => Cardinality(ReadsOf(j)) = 1
    /\ \A a \in DOMAIN reads :
          ~Readable(Elem(reads[a].index)) =>
              /\ a = Len(reads)
              /\ pc = "thrown"
              /\ IsResourceReadError(error)
              /\ error = Err("read_failed", reads[a].index,
                             Elem(reads[a].index).name.s, reads[a].path)
              /\ i = reads[a].index
    /\ pc = "thrown" => result = NoResult

C9_Witness ==
    /\ pc = "thrown"
    /\ Len(reads) = 2
    /\ reads[1] = [index |-> 0, path |-> PathF]
    /\ reads[2] = [index |-> 1, path |-> PathG]
    /\ error = Err("read_failed", 1, NameB, PathG)
    /\ Len(resources) = 1

(***************************************************************************)
(* C10                                                                     *)
(***************************************************************************)
CreateOps ==
    {"createDockerApplicationVersion", "createKubernetesApplicationVersion"}
CreateCalls == {a \in DOMAIN calls : calls[a].op \in CreateOps}
UpdateCalls == {a \in DOMAIN calls : calls[a].op = "updateAllDeployments"}

\* The part of C10 that holds as stated: no backend call before the resolver
\* has returned; a failed resolution ends the run with no call and the step
\* marked failed with the error's message; the version-creation call comes
\* first and is given the resolver's result; updateAllDeployments is called
\* at most once, after it, only when update-deployments is true and with
\* the non-empty id the creation returned.
C10_Order ==
    /\ calls # <<>> => pc = "returned"
    /\ (rpc = "done" /\ pc = "thrown") =>
          /\ calls = <<>>
          /\ failed = [set |-> TRUE, msg |-> error.msg, err |-> error]
    /\ Cardinality(CreateCalls) <= 1
    /\ \A a \in CreateCalls : a = 1 /\ calls[a].resources = result
    /\ Cardinality(UpdateCalls) <= 1
    /\ \A a \in UpdateCalls :
          /\ a = 2
          /\ CreateCalls = {1}
          /\ inputs.updateDeployments = "true"
          /\ versionId # ""
          /\ calls[a].version = versionId
          /\ output = versionId

\* C10 as stated: ... once the resolution has succeeded, exactly one of the
\* two version-creation calls is made ...
C10_ExactlyOneCreateCall ==
    /\ C10_Order
    /\ (rpc = "done" /\ pc = "returned") => Cardinality(CreateCalls) = 1

\* C10 amended: ... once the resolution has succeeded, at most one of the two
\* version-creation calls is made, and exactly one unless reading the
\* compose file, a required chart input, or reading the base-values file
\* fails first ...
C10_AtMostOneCreateCall ==
    /\ C10_Order
    /\ (rpc = "done" /\ pc = "returned") =>
          (Cardinality(CreateCalls) = 1
             <=> failed.msg \notin
                    {"io:compose-file", "io:base-values-file",
                     "required:chart-version", "required:chart-type",
                     "required:chart-name", "required:chart-url"})

C10_Witness ==
    /\ rpc = "done"
    /\ ~failed.set
    /\ Len(calls) = 2
    /\ calls[1].op = "createKubernetesApplicationVersion"
    /\ calls[1].resources.kind = "array"
    /\ Len(calls[1].resources.value) = 2
    /\ calls[2].op = "updateAllDeployments"
    /\ calls[2].version = "v1"

====
